---- MODULE Spec2Model ----
(***************************************************************************)
(* State-machine model of lance-datafusion's exec.rs (OneShotExec, the     *)
(* session-context pool, plan metrics, execute_plan / analyze_plan and the *)
(* one-shot streaming table).                                              *)
(***************************************************************************)
EXTENDS Integers, Sequences, FiniteSets, TLC

\* ------------------------------------------------------------------ bounds
NumThreads == 2      \* worker threads of the host engine
MaxCalls == 3        \* calls made on one node / one pool in a behaviour
MaxLen == 2          \* batches in a source stream
NumBatches == 2      \* distinct batch payloads

Threads == 1..NumThreads
BatchIds == 1..NumBatches
Partitions == {0, 1}
Schemas == {<<"a">>, <<"a", "b">>}

\* ------------------------------------------------------------ Option<T>
None == [tag |-> "None"]
Some(v) == [tag |-> "Some", v |-> v]
is_some(o) == o.tag = "Some"
is_none(o) == o.tag = "None"

\* --------------------------------------------------------------- streams
\* A SendableRecordBatchStream: a schema and the batches still to be yielded.
SeqsUpTo(S, n) == UNION {[1..k -> S] : k \in 0..n}
Streams == [schema : Schemas, items : SeqsUpTo(BatchIds, MaxLen)]
RecordBatches == [schema : Schemas, id : BatchIds]

\* Result<_, DataFusionError> / a panic of the calling thread
NoResult == [tag |-> "NoResult", msg |-> ""]
Ok == [tag |-> "Ok", msg |-> ""]
ExecutionErr(m) == [tag |-> "Execution", msg |-> m]
Panic(m) == [tag |-> "Panic", msg |-> m]

AlreadyExecuted == "OneShotExec has already been executed"
PoisonMsg == "poisoned lock: another task failed inside"

VARIABLES
    stream,        \* OneShotExec.stream: the Option inside the Mutex
    stream_lock,   \* OneShotExec.stream: the Mutex itself [holder, poisoned]
    schema,        \* OneShotExec.schema
    properties,    \* OneShotExec.properties
    original,      \* the batches the node was constructed from
    pc,            \* per thread: position inside the current call
    arg,           \* per thread: partition argument of the current call
    taken,         \* per thread: the local `stream` of execute (line 157)
    result,        \* per thread: outcome of the thread's last finished call
    held,          \* per thread: the stream an Ok result handed to the caller
    received,      \* per thread: batches polled from the held stream
    obtained,      \* calls of execute that returned Ok
    failed,        \* calls of execute that returned Err
    ncalls,        \* calls started
    data,          \* OneShotPartitionStream.data: the Option inside the Mutex
    data_lock,     \* OneShotPartitionStream.data: the Mutex itself
    env,           \* the process environment (the two LANCE_* variables)
    sessions,      \* every SessionContext built so far, by identity
    DEFAULT_SESSION_CONTEXT,                \* lazy static: None until first use
    DEFAULT_SESSION_CONTEXT_WITH_SPILLING,  \* lazy static: None until first use
    lastCall,      \* the last get_session_context call: options, locals, result
    history,       \* the get_session_context calls before the last one
    plan,          \* the plan tree handed to execute_plan / analyze_plan
    metrics,       \* per plan node: its metrics set, if it keeps one
    runs,          \* the streams execute_plan returned, one per call
    events,        \* trace events emitted by report_plan_summary_metrics
    callbacks,     \* counts delivered to execution_stats_callback
    plan_executes, \* invocations of plan.execute
    outcome,       \* outcome of the last execute_plan / analyze_plan call
    analyze,       \* the analyze_plan call in progress
    shown,         \* what the last schema / properties / Debug / display call gave
    resolved,      \* what the last mem_pool_size() / use_spilling() call returned
    task,          \* the get_task_context calls made: session, options, TaskContext
    subvectors,    \* a divide_to_subvectors call: its arguments and its result
    centroids      \* get_sub_vector_centroids calls on one codebook, and their slices

nodeVars == <<stream, stream_lock, schema, properties>>
callVars == <<original, pc, arg, taken, result, held, received, obtained,
              failed, ncalls>>
tableVars == <<data, data_lock>>
ctxVars == <<env, sessions, DEFAULT_SESSION_CONTEXT,
             DEFAULT_SESSION_CONTEXT_WITH_SPILLING, lastCall, history>>
planVars == <<plan, metrics, runs, events, callbacks, plan_executes, outcome,
              analyze>>
probeVars == <<shown, resolved, task>>
codecVars == <<subvectors, centroids>>

\* ----------------------------------------------------------- std Mutex
Unlocked == [holder |-> 0, poisoned |-> FALSE]
MutexFreeUnguarded(lock) == TRUE
\* Mutex::lock blocks until no thread holds the guard
MutexFree(lock) == lock.holder = 0

PoisonIgnored(lock) == FALSE
\* Mutex::lock gives Err(PoisonError) once a thread has panicked while it held
\* the guard
is_poisoned(lock) == lock.poisoned

\* --------------------------------------------------------- OneShotExec
OneShotExecNew(s) ==
    [stream |-> Some(s),
     schema |-> s.schema,
     properties |-> [partitions |-> 1, emission |-> "Incremental",
                     boundedness |-> "Bounded"]]

from_batch_empty(batch) ==
    OneShotExecNew([schema |-> batch.schema, items |-> <<>>])
from_batch(batch) ==
    OneShotExecNew([schema |-> batch.schema, items |-> <<batch.id>>])

children == <<>>

InitThreads ==
    /\ pc = [t \in Threads |-> "idle"]
    /\ arg = [t \in Threads |-> 0]
    /\ taken = [t \in Threads |-> None]
    /\ result = [t \in Threads |-> NoResult]
    /\ held = [t \in Threads |-> None]
    /\ received = [t \in Threads |-> <<>>]
    /\ obtained = 0
    /\ failed = 0
    /\ ncalls = 0

InitNode(node, items) ==
    /\ stream = node.stream
    /\ stream_lock = Unlocked
    /\ schema = node.schema
    /\ properties = node.properties
    /\ original = items

InitOneShot ==
    /\ \/ \E s \in Streams : InitNode(OneShotExecNew(s), s.items)
       \/ \E b \in RecordBatches : InitNode(from_batch(b), <<b.id>>)
    /\ InitThreads

\* execute, line 157-160: self.stream.lock().map_err(..)?
\* A poisoned mutex makes the call return an execution error at once.
ExecLock(t, partition) ==
    /\ pc[t] = "idle"
    /\ ncalls < MaxCalls
    /\ MutexFree(stream_lock)
    /\ ncalls' = ncalls + 1
    /\ arg' = [arg EXCEPT ![t] = partition]
    /\ IF is_poisoned(stream_lock)
       THEN /\ result' = [result EXCEPT ![t] = ExecutionErr(PoisonMsg)]
            /\ failed' = failed + 1
            /\ UNCHANGED <<pc, stream_lock>>
       ELSE /\ stream_lock' = [stream_lock EXCEPT !.holder = t]
            /\ pc' = [pc EXCEPT ![t] = "locked"]
            /\ UNCHANGED <<result, failed>>
    /\ UNCHANGED <<probeVars, codecVars>>
    /\ UNCHANGED <<tableVars, ctxVars, planVars>>
    /\ UNCHANGED <<stream, schema, properties, original, taken, held,
                   received, obtained>>

\* execute, line 161: Option::take reads the slot ...
ExecTakeRead(t) ==
    /\ pc[t] = "locked"
    /\ taken' = [taken EXCEPT ![t] = stream]
    /\ pc' = [pc EXCEPT ![t] = "read"]
    /\ UNCHANGED <<probeVars, codecVars>>
    /\ UNCHANGED <<tableVars, ctxVars, planVars>>
    /\ UNCHANGED <<stream, stream_lock, schema, properties, original, arg,
                   result, held, received, obtained, failed, ncalls>>

\* ... and leaves None in it
ExecTakeWrite(t) ==
    /\ pc[t] = "read"
    /\ stream' = None
    /\ pc' = [pc EXCEPT ![t] = "taken"]
    /\ UNCHANGED <<probeVars, codecVars>>
    /\ UNCHANGED <<tableVars, ctxVars, planVars>>
    /\ UNCHANGED <<stream_lock, schema, properties, original, arg, taken,
                   result, held, received, obtained, failed, ncalls>>

\* execute, line 161: the MutexGuard temporary is dropped at the end of the
\* statement
ExecUnlock(t) ==
    /\ pc[t] = "taken"
    /\ stream_lock' = [stream_lock EXCEPT !.holder = 0]
    /\ pc' = [pc EXCEPT ![t] = "unlocked"]
    /\ UNCHANGED <<probeVars, codecVars>>
    /\ UNCHANGED <<tableVars, ctxVars, planVars>>
    /\ UNCHANGED <<stream, schema, properties, original, arg, taken, result,
                   held, received, obtained, failed, ncalls>>

\* execute, line 162-168: Ok(stream) or the "already been executed" error
ExecReturn(t) ==
    /\ pc[t] = "unlocked"
    /\ pc' = [pc EXCEPT ![t] = "idle"]
    /\ taken' = [taken EXCEPT ![t] = None]
    /\ IF is_some(taken[t])
       THEN /\ result' = [result EXCEPT ![t] = Ok]
            /\ held' = [held EXCEPT ![t] = taken[t]]
            /\ received' = [received EXCEPT ![t] = <<>>]
            /\ obtained' = obtained + 1
            /\ UNCHANGED failed
       ELSE /\ result' = [result EXCEPT ![t] = ExecutionErr(AlreadyExecuted)]
            /\ failed' = failed + 1
            /\ UNCHANGED <<held, received, obtained>>
    /\ UNCHANGED <<probeVars, codecVars>>
    /\ UNCHANGED <<tableVars, ctxVars, planVars>>
    /\ UNCHANGED <<stream, stream_lock, schema, properties, original, arg,
                   ncalls>>

\* with_new_children, line 145-150: todo!() panics; the thread unwinds
WithNewChildren(t, new_children) ==
    /\ pc[t] = "idle"
    /\ ncalls < MaxCalls
    /\ ncalls' = ncalls + 1
    /\ pc' = [pc EXCEPT ![t] = "panicked"]
    /\ result' = [result EXCEPT ![t] = Panic("not yet implemented")]
    /\ UNCHANGED <<probeVars, codecVars>>
    /\ UNCHANGED <<tableVars, ctxVars, planVars>>
    /\ UNCHANGED <<stream, stream_lock, schema, properties, original, arg,
                   taken, held, received, obtained, failed>>

\* The caller polls the stream execute handed to it: the next batch, if any.
PollHeld(t) ==
    /\ pc[t] = "idle"
    /\ is_some(held[t])
    /\ held[t].v.items # <<>>
    /\ received' = [received EXCEPT ![t] = Append(@, Head(held[t].v.items))]
    /\ held' = [held EXCEPT ![t] = Some([held[t].v EXCEPT !.items = Tail(@)])]
    /\ UNCHANGED <<probeVars, codecVars>>
    /\ UNCHANGED <<tableVars, ctxVars, planVars>>
    /\ UNCHANGED <<stream, stream_lock, schema, properties, original, pc, arg,
                   taken, result, obtained, failed, ncalls>>

\* ------------------------------------------------ LanceExecutionOptions
DEFAULT_LANCE_MEM_POOL_SIZE == 100 * 1024 * 1024

\* Values of environment variables are strings, kept as sequences of characters.
Digits == <<"0", "1", "2", "3", "4", "5", "6", "7", "8", "9">>
IsDigit(c) == \E i \in 1..10 : Digits[i] = c
DigitValue(c) == (CHOOSE i \in 1..10 : Digits[i] = c) - 1

RECURSIVE ParseDigits(_, _)
ParseDigits(s, acc) ==
    IF s = <<>> THEN Some(acc)
    ELSE IF ~IsDigit(Head(s)) THEN None
    ELSE ParseDigits(Tail(s), acc * 10 + DigitValue(Head(s)))

\* str::parse::<u64>: an optional leading '+', then one or more decimal digits
\* (the strings of MemPoolEnvValues are too short to overflow a u64)
ParseU64(s) ==
    IF s = <<>> THEN None
    ELSE IF Head(s) = "+" THEN (IF Tail(s) = <<>> THEN None ELSE ParseDigits(Tail(s), 0))
    ELSE ParseDigits(s, 0)

MemPoolEnvValues ==
    {<<"1", "0", "4", "8", "5", "7", "6", "0", "0">>, <<"6", "4">>, <<"a", "b", "c">>}
BypassEnvValues == {<<"1">>}
Envs == [LANCE_MEM_POOL_SIZE : {None} \cup {Some(v) : v \in MemPoolEnvValues},
         LANCE_BYPASS_SPILLING : {None} \cup {Some(v) : v \in BypassEnvValues}]

ExplicitPoolSizes == {DEFAULT_LANCE_MEM_POOL_SIZE, 64}
TargetPartitions == {4}
BatchSizes == {16, 32}
LanceExecutionOptions ==
    [use_spilling : BOOLEAN,
     mem_pool_size : {None} \cup {Some(v) : v \in ExplicitPoolSizes},
     batch_size : {None} \cup {Some(v) : v \in BatchSizes},
     target_partition : {None} \cup {Some(v) : v \in TargetPartitions},
     execution_stats_callback : BOOLEAN]
\* LanceExecutionOptions::default()
DefaultOptions ==
    [use_spilling |-> FALSE, mem_pool_size |-> None, batch_size |-> None,
     target_partition |-> None, execution_stats_callback |-> FALSE]

\* std::env::var is Ok(value) only for a variable that is set to valid
\* Unicode: e.NAME is Some(value) then, None when the variable is not set and
\* NotUnicode when it is set to something that is not valid Unicode
NotUnicode == [tag |-> "NotUnicode"]

mem_pool_size_env_first(options, e) ==
    IF is_some(e.LANCE_MEM_POOL_SIZE)
    THEN LET parsed == ParseU64(e.LANCE_MEM_POOL_SIZE.v)
         IN IF is_some(parsed) THEN parsed.v ELSE DEFAULT_LANCE_MEM_POOL_SIZE
    ELSE IF is_some(options.mem_pool_size) THEN options.mem_pool_size.v
    ELSE DEFAULT_LANCE_MEM_POOL_SIZE
\* mem_pool_size, line 210-222
mem_pool_size(options, e) ==
    IF is_some(options.mem_pool_size) THEN options.mem_pool_size.v
    ELSE IF is_some(e.LANCE_MEM_POOL_SIZE)
         THEN LET parsed == ParseU64(e.LANCE_MEM_POOL_SIZE.v)
              IN IF is_some(parsed) THEN parsed.v ELSE DEFAULT_LANCE_MEM_POOL_SIZE
         ELSE DEFAULT_LANCE_MEM_POOL_SIZE

\* use_spilling, line 224-234
use_spilling(options, e) ==
    IF ~options.use_spilling THEN FALSE
    ELSE IF is_some(e.LANCE_BYPASS_SPILLING) THEN FALSE ELSE TRUE

\* SessionConfig::new(): the batch size of a configuration nobody has changed
DEFAULT_BATCH_SIZE == 8192

\* new_session_context, line 237-252: the configuration of the context built
new_session_context(options, e) ==
    [target_partitions |-> options.target_partition,
     batch_size |-> DEFAULT_BATCH_SIZE,
     disk_manager |-> use_spilling(options, e),
     memory_pool |-> IF use_spilling(options, e)
                     THEN Some(mem_pool_size(options, e)) ELSE None]

\* lazy_static, line 254-263: the first dereference builds the context, every
\* later one returns the same instance
Deref(cell, options, e, built) ==
    IF is_some(cell)
    THEN [id |-> cell.v, cell |-> cell, sessions |-> built]
    ELSE [id |-> Len(built) + 1, cell |-> Some(Len(built) + 1),
          sessions |-> Append(built, new_session_context(options, e))]

UsesCachedIgnoringPartitions(options, e) ==
    mem_pool_size(options, e) = DEFAULT_LANCE_MEM_POOL_SIZE
\* get_session_context, line 266: the condition of the cached path
UsesCached(options, e) ==
    /\ mem_pool_size(options, e) = DEFAULT_LANCE_MEM_POOL_SIZE
    /\ is_none(options.target_partition)

\* get_session_context, line 265-275: the identity of the context returned
\* and the pool after the call
get_session_context(options, e, built, plain, spilling) ==
    IF UsesCached(options, e)
    THEN IF use_spilling(options, e)
         THEN LET d == Deref(spilling,
                             [DefaultOptions EXCEPT !.use_spilling = TRUE], e, built)
              IN [ret |-> d.id, sessions |-> d.sessions, plain |-> plain,
                  spilling |-> d.cell]
         ELSE LET d == Deref(plain, DefaultOptions, e, built)
              IN [ret |-> d.id, sessions |-> d.sessions, plain |-> d.cell,
                  spilling |-> spilling]
    ELSE [ret |-> Len(built) + 1,
          sessions |-> Append(built, new_session_context(options, e)),
          plain |-> plain, spilling |-> spilling]

IdleCtx ==
    /\ sessions = <<>>
    /\ DEFAULT_SESSION_CONTEXT = None
    /\ DEFAULT_SESSION_CONTEXT_WITH_SPILLING = None
    /\ lastCall = None
    /\ history = {}

\* The session-context pool of a fresh process
InitCtx ==
    /\ env \in Envs
    /\ IdleCtx

\* What a call of get_session_context(options) does to the pool
PoolAfter(r) ==
    /\ sessions' = r.sessions
    /\ DEFAULT_SESSION_CONTEXT' = r.plain
    /\ DEFAULT_SESSION_CONTEXT_WITH_SPILLING' = r.spilling

\* ------------------------------------------------------- plan metrics
MaxNodes == 3        \* nodes of a plan tree
MaxAdds == 3         \* metric increments recorded while a plan runs
MaxRuns == 2         \* calls of execute_plan / analyze_plan in a behaviour

IOPS_METRIC == "iops"
REQUESTS_METRIC == "requests"
BYTES_READ_METRIC == "bytes_read"
INDICES_LOADED_METRIC == "indices_loaded"
PARTS_LOADED_METRIC == "parts_loaded"
INDEX_COMPARISONS_METRIC == "index_comparisons"
OUTPUT_ROWS == "output_rows"
SummaryMetrics == {IOPS_METRIC, REQUESTS_METRIC, BYTES_READ_METRIC,
                   INDICES_LOADED_METRIC, PARTS_LOADED_METRIC,
                   INDEX_COMPARISONS_METRIC}
MetricNames == SummaryMetrics \cup {OUTPUT_ROWS}

\* A plan tree: nodes 1..n, node 1 the root, parent[i] < i for every other
\* node; the children of a node are kept in increasing order.
PlanShapes ==
    UNION {[n : {k}, parent : {f \in [2..k -> 1..k] : \A i \in 2..k : f[i] < i}]
           : k \in 1..MaxNodes}
PartitionCounts == {0, 1, 2}
Plans == {[n |-> sh.n, parent |-> sh.parent, partitions |-> c]
          : sh \in PlanShapes, c \in PartitionCounts}

RECURSIVE ChildrenFrom(_, _, _)
ChildrenFrom(p, node, i) ==
    IF i > p.n THEN <<>>
    ELSE IF p.parent[i] = node THEN <<i>> \o ChildrenFrom(p, node, i + 1)
    ELSE ChildrenFrom(p, node, i + 1)
\* node.children()
plan_children(p, node) == ChildrenFrom(p, node, 2)

NoMetrics == [name \in MetricNames |-> None]
\* MetricsExt::find_count: the counter of that name in a metrics set
find_count(set, name) == set[name]
unwrap_or(o, d) == IF is_some(o) THEN o.v ELSE d

\* ExecutionSummaryCounts::default(), line 289-297
DefaultCounts ==
    [iops |-> 0, requests |-> 0, bytes_read |-> 0, indices_loaded |-> 0,
     parts_loaded |-> 0, index_comparisons |-> 0]

\* visit_node, line 300-325: the node's own counters added to the totals
AddNodeCounts(m, node, counts) ==
    IF is_some(m[node])
    THEN [iops |-> counts.iops + unwrap_or(find_count(m[node].v, IOPS_METRIC), 0),
          requests |->
              counts.requests + unwrap_or(find_count(m[node].v, REQUESTS_METRIC), 0),
          bytes_read |->
              counts.bytes_read + unwrap_or(find_count(m[node].v, BYTES_READ_METRIC), 0),
          indices_loaded |->
              counts.indices_loaded
                  + unwrap_or(find_count(m[node].v, INDICES_LOADED_METRIC), 0),
          parts_loaded |->
              counts.parts_loaded
                  + unwrap_or(find_count(m[node].v, PARTS_LOADED_METRIC), 0),
          index_comparisons |->
              counts.index_comparisons
                  + unwrap_or(find_count(m[node].v, INDEX_COMPARISONS_METRIC), 0)]
    ELSE counts

RECURSIVE visit_node(_, _, _, _)
RECURSIVE VisitChildren(_, _, _, _)
\* visit_node, line 326-328: for child in node.children() { visit_node(..) }
VisitChildren(p, m, kids, counts) ==
    IF kids = <<>> THEN counts
    ELSE VisitChildren(p, m, Tail(kids), visit_node(p, m, Head(kids), counts))

visit_node_shallow(p, m, node, counts) == AddNodeCounts(m, node, counts)
\* visit_node, line 299-329
visit_node(p, m, node, counts) ==
    VisitChildren(p, m, plan_children(p, node), AddNodeCounts(m, node, counts))

\* report_plan_summary_metrics, line 331-352: the trace event emitted, and
\* the counts handed to the callback when one was supplied
report_plan_summary_metrics(p, m, options) ==
    LET output_rows ==
            IF is_some(m[1]) THEN unwrap_or(m[1].v[OUTPUT_ROWS], 0) ELSE 0
        counts == visit_node(p, m, 1, DefaultCounts)
    IN [event |-> [output_rows |-> output_rows, counts |-> counts],
        callback |-> IF options.execution_stats_callback
                     THEN Some(counts) ELSE None]

\* The trace log and the callback log after one report
Reported(p, m, options) ==
    LET r == report_plan_summary_metrics(p, m, options)
    IN /\ events' = Append(events, r.event)
       /\ callbacks' = IF is_some(r.callback)
                       THEN Append(callbacks, r.callback.v) ELSE callbacks

\* ============================================== the session-context pool
\* A caller asks for a session context
GetSessionContext(options) ==
    /\ ncalls < MaxCalls
    /\ ncalls' = ncalls + 1
    /\ LET r == get_session_context(options, env, sessions, DEFAULT_SESSION_CONTEXT,
                                    DEFAULT_SESSION_CONTEXT_WITH_SPILLING)
       IN /\ PoolAfter(r)
          /\ lastCall' = Some([options |-> options,
                               pool_size |-> mem_pool_size(options, env),
                               spill |-> use_spilling(options, env),
                               ret |-> r.ret])
    /\ history' = IF is_some(lastCall) THEN history \cup {lastCall.v} ELSE history
    /\ UNCHANGED <<probeVars, codecVars>>
    /\ UNCHANGED <<env, nodeVars, tableVars, planVars>>
    /\ UNCHANGED <<original, pc, arg, taken, result, held, received, obtained,
                   failed>>

\* Something in the process sets or removes one of the two variables (while
\* calls are still to come)
SetEnv(e) ==
    /\ ncalls < MaxCalls
    /\ e # env
    /\ \/ e.LANCE_MEM_POOL_SIZE = env.LANCE_MEM_POOL_SIZE
       \/ e.LANCE_BYPASS_SPILLING = env.LANCE_BYPASS_SPILLING
    /\ env' = e
    /\ UNCHANGED <<probeVars, codecVars>>
    /\ UNCHANGED <<sessions, DEFAULT_SESSION_CONTEXT,
                   DEFAULT_SESSION_CONTEXT_WITH_SPILLING, lastCall, history>>
    /\ UNCHANGED <<nodeVars, callVars, tableVars, planVars>>

\* Options of the pool's callers (batch size and callback play no part here)
PoolOptions ==
    {o \in LanceExecutionOptions :
        is_none(o.batch_size) /\ ~o.execution_stats_callback}

NextCtx ==
    \/ \E o \in PoolOptions : GetSessionContext(o)
    \/ \E e \in Envs : SetEnv(e)

\* ======================================================== plan metrics
\* A node of the running plan records one unit of one of its metrics
AddCount(node, name) ==
    /\ events = <<>>
    /\ ncalls < MaxAdds
    /\ ncalls' = ncalls + 1
    /\ LET set == IF is_some(metrics[node]) THEN metrics[node].v ELSE NoMetrics
       IN metrics' = [metrics EXCEPT ![node] =
              Some([set EXCEPT ![name] = Some(unwrap_or(set[name], 0) + 1)])]
    /\ UNCHANGED <<probeVars, codecVars>>
    /\ UNCHANGED <<plan, runs, events, callbacks, plan_executes, outcome, analyze>>
    /\ UNCHANGED <<nodeVars, tableVars, ctxVars>>
    /\ UNCHANGED <<original, pc, arg, taken, result, held, received, obtained,
                   failed>>

\* The plan has finished and its summary is reported
Report(options) ==
    /\ events = <<>>
    /\ Reported(plan, metrics, options)
    /\ UNCHANGED <<probeVars, codecVars>>
    /\ UNCHANGED <<plan, metrics, runs, plan_executes, outcome, analyze>>
    /\ UNCHANGED <<nodeVars, callVars, tableVars, ctxVars>>

ReportOptions == {o \in LanceExecutionOptions :
                     /\ o = [DefaultOptions EXCEPT !.execution_stats_callback =
                                                      o.execution_stats_callback]}

NextMetrics ==
    \/ \E node \in 1..plan.n, name \in MetricNames : AddCount(node, name)
    \/ \E o \in ReportOptions : Report(o)

NextOneShot ==
    \/ \E t \in Threads, p \in Partitions : ExecLock(t, p)
    \/ \E t \in Threads : ExecTakeRead(t)
    \/ \E t \in Threads : ExecTakeWrite(t)
    \/ \E t \in Threads : ExecUnlock(t)
    \/ \E t \in Threads : ExecReturn(t)
    \/ \E t \in Threads, n \in 0..1 : WithNewChildren(t, [i \in 1..n |-> "child"])
    \/ \E t \in Threads : PollHeld(t)

\* ========================================================= PlanRunner
\* What plan.execute(0, ctx) gives: an error, or a stream of items, each a
\* batch or an error
StreamItems == {"batch", "error"}
ExecuteOutcomes == {None} \cup {Some(items) : items \in SeqsUpTo(StreamItems, MaxLen)}

IoErr(m) == [tag |-> "IO", msg |-> m]
LanceErr(m) == [tag |-> "Err", msg |-> m]

PartitionCountUnchecked(p) == TRUE
\* execute_plan, line 370: assert_eq!(partition_count(), 1)
PartitionCountIsOne(p) == p.partitions = 1

finally_missing(items, options) ==
    [items |-> items, f |-> None, ended |-> FALSE, again |-> FALSE,
     dropped |-> FALSE, reports |-> 0]
\* execute_plan, line 374-377: the stream wrapped with the reporting closure
finally(items, options) ==
    [items |-> items, f |-> Some(options), ended |-> FALSE, again |-> FALSE,
     dropped |-> FALSE, reports |-> 0]

\* execute_plan, line 357-378
ExecutePlan(options, executed) ==
    /\ ncalls < MaxRuns
    /\ ncalls' = ncalls + 1
    /\ PoolAfter(get_session_context(options, env, sessions, DEFAULT_SESSION_CONTEXT,
                                     DEFAULT_SESSION_CONTEXT_WITH_SPILLING))
    /\ IF ~PartitionCountIsOne(plan)
       THEN /\ outcome' = Panic("assertion failed")
            /\ UNCHANGED <<plan_executes, runs>>
       ELSE /\ plan_executes' = plan_executes + 1
            /\ IF is_none(executed)
               THEN /\ outcome' = LanceErr("execute failed")
                    /\ UNCHANGED runs
               ELSE /\ outcome' = Ok
                    /\ runs' = Append(runs, finally(executed.v, options))
    /\ UNCHANGED <<probeVars, codecVars>>
    /\ UNCHANGED <<plan, metrics, events, callbacks, analyze>>
    /\ UNCHANGED <<env, lastCall, history, nodeVars, tableVars>>
    /\ UNCHANGED <<original, pc, arg, taken, result, held, received, obtained,
                   failed>>

\* FinallyStream::poll_next: the inner stream is polled; when it reports its
\* end the closure, if still there, is taken and run
PollNext(r) ==
    /\ ~runs[r].dropped
    /\ IF runs[r].items # <<>>
       THEN /\ runs' = [runs EXCEPT ![r].items = Tail(@)]
            /\ UNCHANGED <<events, callbacks>>
       ELSE /\ runs' = [runs EXCEPT ![r].f = None, ![r].ended = TRUE,
                                    ![r].again = runs[r].ended,
                                    ![r].reports = @ + (IF is_some(runs[r].f) THEN 1 ELSE 0)]
            /\ IF is_some(runs[r].f)
               THEN Reported(plan, metrics, runs[r].f.v)
               ELSE UNCHANGED <<events, callbacks>>
    /\ UNCHANGED <<probeVars, codecVars>>
    /\ UNCHANGED <<plan, metrics, plan_executes, outcome, analyze>>
    /\ UNCHANGED <<nodeVars, callVars, tableVars, ctxVars>>

\* FinallyStream::drop: the closure, if still there, is taken and run
DropStream(r) ==
    /\ ~runs[r].dropped
    /\ runs' = [runs EXCEPT ![r].f = None, ![r].dropped = TRUE,
                            ![r].reports = @ + (IF is_some(runs[r].f) THEN 1 ELSE 0)]
    /\ IF is_some(runs[r].f)
       THEN Reported(plan, metrics, runs[r].f.v)
       ELSE UNCHANGED <<events, callbacks>>
    /\ UNCHANGED <<probeVars, codecVars>>
    /\ UNCHANGED <<plan, metrics, plan_executes, outcome, analyze>>
    /\ UNCHANGED <<nodeVars, callVars, tableVars, ctxVars>>

\* Options of execute_plan's callers
RunOptions ==
    {DefaultOptions,
     [DefaultOptions EXCEPT !.execution_stats_callback = TRUE],
     [DefaultOptions EXCEPT !.execution_stats_callback = TRUE, !.use_spilling = TRUE]}

NextPlan ==
    \/ \E o \in RunOptions, x \in ExecuteOutcomes : ExecutePlan(o, x)
    \/ \E r \in 1..Len(runs) : PollNext(r)
    \/ \E r \in 1..Len(runs) : DropStream(r)

\* analyze_plan, line 380-396: up to the stream of the AnalyzeExec, which
\* declares one partition whatever its input declares
AnalyzeStart(options, executed) ==
    /\ analyze.pc = "idle"
    /\ ncalls < MaxRuns
    /\ ncalls' = ncalls + 1
    /\ PoolAfter(get_session_context(options, env, sessions, DEFAULT_SESSION_CONTEXT,
                                     DEFAULT_SESSION_CONTEXT_WITH_SPILLING))
    /\ IF is_none(executed)
       THEN /\ outcome' = IoErr(<<"Failed to execute analyze plan: ", "execute failed">>)
            /\ analyze' = [pc |-> "idle", items |-> <<>>, saw_error |-> FALSE]
       ELSE /\ outcome' = NoResult
            /\ analyze' = [pc |-> "drain", items |-> executed.v, saw_error |-> FALSE]
    /\ UNCHANGED <<probeVars, codecVars>>
    /\ UNCHANGED <<plan, metrics, runs, events, callbacks, plan_executes>>
    /\ UNCHANGED <<env, lastCall, history, nodeVars, tableVars>>
    /\ UNCHANGED <<original, pc, arg, taken, result, held, received, obtained,
                   failed>>

\* analyze_plan, line 399: while (stream.next().await).is_some() {}
AnalyzeNext ==
    /\ analyze.pc = "drain"
    /\ IF analyze.items # <<>>
       THEN analyze' = [analyze EXCEPT
                           !.items = Tail(@),
                           !.saw_error = @ \/ Head(analyze.items) = "error"]
       ELSE analyze' = [analyze EXCEPT !.pc = "display"]
    /\ UNCHANGED <<probeVars, codecVars>>
    /\ UNCHANGED <<plan, metrics, runs, events, callbacks, plan_executes, outcome>>
    /\ UNCHANGED <<nodeVars, callVars, tableVars, ctxVars>>

\* analyze_plan, line 401-402: Ok(the plan displayed with its metrics)
AnalyzeReturn ==
    /\ analyze.pc = "display"
    /\ analyze' = [analyze EXCEPT !.pc = "idle"]
    /\ outcome' = [tag |-> "Ok", msg |-> "display"]
    /\ UNCHANGED <<probeVars, codecVars>>
    /\ UNCHANGED <<plan, metrics, runs, events, callbacks, plan_executes>>
    /\ UNCHANGED <<nodeVars, callVars, tableVars, ctxVars>>

\* Options of analyze_plan's callers
AnalyzeOptions ==
    {o \in LanceExecutionOptions : is_none(o.mem_pool_size) /\ is_none(o.batch_size)}

NextAnalyze ==
    \/ \E o \in AnalyzeOptions, x \in ExecuteOutcomes : AnalyzeStart(o, x)
    \/ AnalyzeNext
    \/ AnalyzeReturn

\* ============================================ the one-shot streaming table
\* OneShotPartitionStream::new, line 431-437
OneShotPartitionStreamNew(s) == [data |-> Some(s), schema |-> s.schema]

\* PartitionStream::execute, line 446: self.data.lock().unwrap()
PsLock(t) ==
    /\ pc[t] = "idle"
    /\ ncalls < MaxCalls
    /\ MutexFree(data_lock)
    /\ ncalls' = ncalls + 1
    /\ IF is_poisoned(data_lock)
       THEN /\ result' = [result EXCEPT ![t] = Panic(PoisonMsg)]
            /\ pc' = [pc EXCEPT ![t] = "panicked"]
            /\ UNCHANGED data_lock
       ELSE /\ data_lock' = [data_lock EXCEPT !.holder = t]
            /\ pc' = [pc EXCEPT ![t] = "locked"]
            /\ UNCHANGED result
    /\ UNCHANGED <<probeVars, codecVars>>
    /\ UNCHANGED <<data, nodeVars, ctxVars, planVars>>
    /\ UNCHANGED <<original, arg, taken, held, received, obtained, failed>>

\* line 447-448: Option::take reads the slot ...
PsTakeRead(t) ==
    /\ pc[t] = "locked"
    /\ taken' = [taken EXCEPT ![t] = data]
    /\ pc' = [pc EXCEPT ![t] = "read"]
    /\ UNCHANGED <<probeVars, codecVars>>
    /\ UNCHANGED <<tableVars, nodeVars, ctxVars, planVars>>
    /\ UNCHANGED <<original, arg, result, held, received, obtained, failed, ncalls>>

\* ... and leaves None in it
PsTakeWrite(t) ==
    /\ pc[t] = "read"
    /\ data' = None
    /\ pc' = [pc EXCEPT ![t] = "taken"]
    /\ UNCHANGED <<probeVars, codecVars>>
    /\ UNCHANGED <<data_lock, nodeVars, ctxVars, planVars>>
    /\ UNCHANGED <<original, arg, taken, result, held, received, obtained, failed,
                   ncalls>>

\* line 449-450: expect() returns the stream or panics; the guard, a local of
\* the function, is dropped on the way out, and dropped by a panicking thread
\* it poisons the mutex
PsReturn(t) ==
    /\ pc[t] = "taken"
    /\ taken' = [taken EXCEPT ![t] = None]
    /\ IF is_some(taken[t])
       THEN /\ data_lock' = [data_lock EXCEPT !.holder = 0]
            /\ pc' = [pc EXCEPT ![t] = "idle"]
            /\ result' = [result EXCEPT ![t] = Ok]
            /\ held' = [held EXCEPT ![t] = taken[t]]
            /\ received' = [received EXCEPT ![t] = <<>>]
            /\ obtained' = obtained + 1
       ELSE /\ data_lock' = [holder |-> 0, poisoned |-> TRUE]
            /\ pc' = [pc EXCEPT ![t] = "panicked"]
            /\ result' = [result EXCEPT ![t] =
                   Panic("Attempt to consume a one shot dataframe multiple times")]
            /\ UNCHANGED <<held, received, obtained>>
    /\ UNCHANGED <<probeVars, codecVars>>
    /\ UNCHANGED <<data, nodeVars, ctxVars, planVars>>
    /\ UNCHANGED <<original, arg, failed, ncalls>>

\* The caller polls the stream the table handed to it
PsPoll(t) ==
    /\ pc[t] = "idle"
    /\ is_some(held[t])
    /\ held[t].v.items # <<>>
    /\ received' = [received EXCEPT ![t] = Append(@, Head(held[t].v.items))]
    /\ held' = [held EXCEPT ![t] = Some([held[t].v EXCEPT !.items = Tail(@)])]
    /\ UNCHANGED <<probeVars, codecVars>>
    /\ UNCHANGED <<tableVars, nodeVars, ctxVars, planVars>>
    /\ UNCHANGED <<original, pc, arg, taken, result, obtained, failed, ncalls>>

NextTable ==
    \/ \E t \in Threads : PsLock(t)
    \/ \E t \in Threads : PsTakeRead(t)
    \/ \E t \in Threads : PsTakeWrite(t)
    \/ \E t \in Threads : PsReturn(t)
    \/ \E t \in Threads : PsPoll(t)

\* ============================================================ initial states
IdleNode ==
    /\ stream = None
    /\ stream_lock = Unlocked
    /\ schema = <<>>
    /\ properties = [partitions |-> 1, emission |-> "Incremental",
                     boundedness |-> "Bounded"]

IdleTable ==
    /\ data = None
    /\ data_lock = Unlocked

NoEnv == [LANCE_MEM_POOL_SIZE |-> None, LANCE_BYPASS_SPILLING |-> None]

IdlePlan ==
    /\ plan = [n |-> 1, parent |-> <<>>, partitions |-> 1]
    /\ metrics = [i \in 1..1 |-> None]
    /\ runs = <<>>
    /\ events = <<>>
    /\ callbacks = <<>>
    /\ plan_executes = 0
    /\ outcome = NoResult
    /\ analyze = [pc |-> "idle", items |-> <<>>, saw_error |-> FALSE]

InitPlan ==
    /\ plan \in Plans
    /\ metrics = [i \in 1..plan.n |-> None]
    /\ runs = <<>>
    /\ events = <<>>
    /\ callbacks = <<>>
    /\ plan_executes = 0
    /\ outcome = NoResult
    /\ analyze = [pc |-> "idle", items |-> <<>>, saw_error |-> FALSE]

\* Nothing has been asked of the node, the options or a session yet
IdleProbe ==
    /\ shown = None
    /\ resolved = None
    /\ task = <<>>

\* No PQ function has been called
IdleCodec ==
    /\ subvectors = None
    /\ centroids = None

vars == <<nodeVars, callVars, tableVars, ctxVars, planVars, probeVars, codecVars>>

\* Threads of the host engine working on one OneShotExec
Init ==
    /\ InitOneShot /\ IdleTable /\ env = NoEnv /\ IdleCtx /\ IdlePlan
    /\ IdleProbe /\ IdleCodec
Next == NextOneShot
Spec == Init /\ [][Next]_vars

\* Threads querying the table read_one_shot registered (line 454-462)
InitTable ==
    /\ \E s \in Streams :
          /\ data = OneShotPartitionStreamNew(s).data
          /\ original = s.items
    /\ data_lock = Unlocked
    /\ InitThreads
    /\ IdleNode /\ env = NoEnv /\ IdleCtx /\ IdlePlan
    /\ IdleProbe /\ IdleCodec
SpecTable == InitTable /\ [][NextTable]_vars

\* Callers of the session-context pool, and the environment changing under them
InitPool ==
    /\ InitCtx /\ IdleNode /\ IdleTable /\ IdlePlan /\ InitThreads /\ original = <<>>
    /\ IdleProbe /\ IdleCodec
SpecPool == InitPool /\ [][NextCtx]_vars

\* A plan that runs, recording metrics, and is then summarised
InitMetrics ==
    /\ InitPlan /\ plan.partitions = 1
    /\ IdleNode /\ IdleTable /\ env = NoEnv /\ IdleCtx /\ InitThreads /\ original = <<>>
    /\ IdleProbe /\ IdleCodec
SpecMetrics == InitMetrics /\ [][NextMetrics]_vars

\* Callers of execute_plan and the consumers of the streams it returns, on a
\* plan of one node or of a node and its child
InitRunner ==
    /\ InitPlan /\ plan.n <= 2
    /\ IdleNode /\ IdleTable /\ env = NoEnv /\ IdleCtx /\ InitThreads /\ original = <<>>
    /\ IdleProbe /\ IdleCodec
SpecRunner == InitRunner /\ [][NextPlan]_vars

\* Callers of analyze_plan
SpecAnalyze == InitRunner /\ [][NextAnalyze]_vars
\* ================================== schema, properties, Debug and display
PoisonUnwrapMsg == "called Result::unwrap() on an Err value: PoisonError"
WriterPanicMsg == "the writer panicked"

\* The fmt::Write behind the Formatter handed to fmt / fmt_as either takes
\* what is written to it or panics
Writers == {"ok", "panic"}
DisplayFormatTypes == {"Default", "Verbose"}

\* columns.join(",")
RECURSIVE join(_, _)
join(strs, sep) ==
    IF strs = <<>> THEN <<>>
    ELSE IF Len(strs) = 1 THEN strs
    ELSE <<Head(strs), sep>> \o join(Tail(strs), sep)

\* The pieces a format string writes, an empty piece writing nothing
written(pieces) == SelectSeq(pieces, LAMBDA x : x # "")

\* Debug::fmt, line 94-97: the struct printed with its two fields
debug_struct(slot, sch) ==
    [name |-> "OneShotExec", exhausted |-> is_none(slot), schema |-> sch]

\* fmt_as, line 110-122: "OneShotStream: {}columns=[{}]"
display_as(slot, sch) ==
    LET exhausted == IF is_some(slot) THEN "" ELSE "EXHAUSTED"
        columns == sch
    IN written(<<"OneShotStream: ", exhausted, "columns=[">>
               \o join(columns, ",") \o <<"]">>)

\* A call that only reads the node and returns to its caller
Answered(t, op, value) ==
    /\ ncalls' = ncalls + 1
    /\ shown' = Some([op |-> op, n |-> ncalls + 1, value |-> value])
    /\ UNCHANGED <<nodeVars, tableVars, ctxVars, planVars, codecVars>>
    /\ UNCHANGED <<resolved, task>>
    /\ UNCHANGED <<original, pc, arg, taken, result, held, received, obtained,
                   failed>>

\* A call in which the calling thread panics; a guard it holds is dropped
\* while it unwinds, which poisons the mutex
Unwinds(t, msg, poisons) ==
    /\ ncalls' = ncalls + 1
    /\ pc' = [pc EXCEPT ![t] = "panicked"]
    /\ result' = [result EXCEPT ![t] = Panic(msg)]
    /\ stream_lock' = [stream_lock EXCEPT !.poisoned = @ \/ poisons]
    /\ UNCHANGED <<stream, schema, properties>>
    /\ UNCHANGED <<tableVars, ctxVars, planVars, probeVars, codecVars>>
    /\ UNCHANGED <<original, arg, taken, held, received, obtained, failed>>

\* schema(), line 137-139
SchemaCall(t) ==
    /\ pc[t] = "idle"
    /\ ncalls < MaxCalls
    /\ Answered(t, "schema", schema)

\* properties(), line 175-177
PropertiesCall(t) ==
    /\ pc[t] = "idle"
    /\ ncalls < MaxCalls
    /\ Answered(t, "properties", properties)

\* Debug::fmt, line 91-99: lock().unwrap(), then the output is written with
\* the guard held until the function ends
DebugFmt(t, writer) ==
    /\ pc[t] = "idle"
    /\ ncalls < MaxCalls
    /\ MutexFree(stream_lock)
    /\ IF is_poisoned(stream_lock) THEN Unwinds(t, PoisonUnwrapMsg, TRUE)
       ELSE IF writer = "panic" THEN Unwinds(t, WriterPanicMsg, TRUE)
       ELSE Answered(t, "debug", debug_struct(stream, schema))

\* DisplayAs::fmt_as, line 101-126: the same for the one-line display
FmtAs(t, format, writer) ==
    /\ pc[t] = "idle"
    /\ ncalls < MaxCalls
    /\ MutexFree(stream_lock)
    /\ IF is_poisoned(stream_lock) THEN Unwinds(t, PoisonUnwrapMsg, TRUE)
       ELSE IF writer = "panic" THEN Unwinds(t, WriterPanicMsg, TRUE)
       ELSE Answered(t, "display", display_as(stream, schema))

NextShow ==
    \/ NextOneShot
    \/ \E t \in Threads : SchemaCall(t)
    \/ \E t \in Threads : PropertiesCall(t)
    \/ \E t \in Threads, w \in Writers : DebugFmt(t, w)
    \/ \E t \in Threads, f \in DisplayFormatTypes, w \in Writers : FmtAs(t, f, w)

\* Threads executing a OneShotExec, built from a batch or from a stream of at
\* most one batch, while others print it or ask for its schema
InitShow ==
    /\ \/ \E s \in Streams : Len(s.items) <= 1 /\ InitNode(OneShotExecNew(s), s.items)
       \/ \E b \in RecordBatches : InitNode(from_batch(b), <<b.id>>)
    /\ InitThreads
    /\ IdleTable /\ env = NoEnv /\ IdleCtx /\ IdlePlan /\ IdleProbe /\ IdleCodec
SpecShow == InitShow /\ [][NextShow]_vars

\* ============================== resolving the options against the environment
\* Values the two variables may be set to
ResolveEnvs ==
    [LANCE_MEM_POOL_SIZE :
        {None, NotUnicode} \cup {Some(v) : v \in MemPoolEnvValues
                                     \cup {<<"+", "6", "4">>, <<"-", "1">>, <<>>}},
     LANCE_BYPASS_SPILLING :
        {None, NotUnicode} \cup {Some(v) : v \in BypassEnvValues \cup {<<"0">>, <<>>}}]

\* options.mem_pool_size()
MemPoolSize(options) ==
    /\ resolved' = Some([op |-> "mem_pool_size", options |-> options,
                         value |-> mem_pool_size(options, env)])
    /\ UNCHANGED <<shown, task>>
    /\ UNCHANGED <<nodeVars, callVars, tableVars, ctxVars, planVars, codecVars>>

\* options.use_spilling()
UseSpilling(options) ==
    /\ resolved' = Some([op |-> "use_spilling", options |-> options,
                         value |-> use_spilling(options, env)])
    /\ UNCHANGED <<shown, task>>
    /\ UNCHANGED <<nodeVars, callVars, tableVars, ctxVars, planVars, codecVars>>

NextResolve ==
    \/ \E o \in LanceExecutionOptions : MemPoolSize(o)
    \/ \E o \in LanceExecutionOptions : UseSpilling(o)

\* Option sets resolved in a process started with some environment
InitResolve ==
    /\ env \in ResolveEnvs
    /\ IdleCtx /\ IdleNode /\ IdleTable /\ IdlePlan /\ InitThreads /\ original = <<>>
    /\ IdleProbe /\ IdleCodec
SpecResolve == InitResolve /\ [][NextResolve]_vars

\* ================================================= get_task_context
get_task_context_in_place(session, options) ==
    LET state == IF is_some(options.batch_size)
                 THEN [session EXCEPT !.batch_size = options.batch_size.v]
                 ELSE session
    IN [ret |-> [batch_size |-> state.batch_size], session |-> state]
\* get_task_context, line 277-287: state() hands out the session's state by
\* value; the override is written to that local and the task context is made
\* from it, the session keeping what it had
get_task_context(session, options) ==
    LET state == IF is_some(options.batch_size)
                 THEN [session EXCEPT !.batch_size = options.batch_size.v]
                 ELSE session
    IN [ret |-> [batch_size |-> state.batch_size], session |-> session]

\* A caller derives a task context from a session it got from the pool
GetTaskContext(id, options) ==
    /\ ncalls < MaxCalls
    /\ ncalls' = ncalls + 1
    /\ LET r == get_task_context(sessions[id], options)
       IN /\ sessions' = [sessions EXCEPT ![id] = r.session]
          /\ task' = Append(task, [session |-> id, options |-> options,
                                   ctx |-> r.ret])
    /\ UNCHANGED <<env, DEFAULT_SESSION_CONTEXT, DEFAULT_SESSION_CONTEXT_WITH_SPILLING,
                   lastCall, history>>
    /\ UNCHANGED <<shown, resolved>>
    /\ UNCHANGED <<nodeVars, tableVars, planVars, codecVars>>
    /\ UNCHANGED <<original, pc, arg, taken, result, held, received, obtained,
                   failed>>

\* Options of the callers asking for a session, and of those deriving a task
\* context from one
TaskSessionOptions ==
    {DefaultOptions, [DefaultOptions EXCEPT !.use_spilling = TRUE],
     [DefaultOptions EXCEPT !.target_partition = Some(4)]}
TaskOptions ==
    {[DefaultOptions EXCEPT !.batch_size = b] :
        b \in {None} \cup {Some(v) : v \in BatchSizes}}

NextTask ==
    \/ \E o \in TaskSessionOptions : GetSessionContext(o)
    \/ \E id \in 1..Len(sessions), o \in TaskOptions : GetTaskContext(id, o)

SpecTask == InitPool /\ [][NextTask]_vars

\* ========================================== PQ: divide_to_subvectors
MaxVectors == 2      \* vectors in a FixedSizeListArray
MaxDim == 4          \* dimension of the vectors
MaxBits == 2         \* NUM_BITS of a codebook
MaxSubVectors == 3   \* sub-vectors of a codebook

Elements == {0, 1}
\* A FixedSizeListArray of len vectors with value_length components each
\* (at least one), its values laid out vector after vector
FixedSizeListArrays ==
    UNION {[value_length : {d}, len : {n}, values : [1..(n * d) -> Elements]]
           : d \in 1..MaxDim, n \in 0..MaxVectors}

InvalidInput(m) == [tag |-> "InvalidInput", msg |-> m, v |-> None]
OkBuffers(b) == [tag |-> "Ok", msg |-> <<>>, v |-> Some(b)]
Aborted(m) == [tag |-> "Panic", msg |-> m, v |-> None]

\* {} in a format string: the number in decimal digits
RECURSIVE to_string(_)
to_string(n) ==
    IF n < 10 THEN <<Digits[n + 1]>>
    ELSE to_string(n \div 10) \o <<Digits[(n % 10) + 1]>>

\* line 19-22: format!("num_sub_vectors must divide vector dimension {}, but got {}")
invalid_input_message(dim, m) ==
    <<"num_sub_vectors must divide vector dimension ", to_string(dim),
      ", but got ", to_string(m)>>

\* &vec[a..b]
slice(vec, a, b) == SubSeq(vec, a + 1, b)

\* [T]::chunks(dim): consecutive pieces of dim elements, the last one shorter
\* when the length is no multiple of dim
chunks(values, dim) ==
    [k \in 1..((Len(values) + dim - 1) \div dim) |->
        slice(values, (k - 1) * dim,
              IF k * dim < Len(values) THEN k * dim ELSE Len(values))]

RECURSIVE ExtendSubarrays(_, _, _, _, _)
ExtendSubarraysShifted(subarrays, vec, i, m, sub_vector_length) ==
    IF i = m THEN subarrays
    ELSE ExtendSubarrays(
             [subarrays EXCEPT ![((i + 1) % m) + 1] =
                 @ \o slice(vec, i * sub_vector_length, (i + 1) * sub_vector_length)],
             vec, i + 1, m, sub_vector_length)
\* line 38-41: for i in 0..m { subarrays[i].extend_from_slice(&vec[..]) }
ExtendSubarrays(subarrays, vec, i, m, sub_vector_length) ==
    IF i = m THEN subarrays
    ELSE ExtendSubarrays(
             [subarrays EXCEPT ![i + 1] =
                 @ \o slice(vec, i * sub_vector_length, (i + 1) * sub_vector_length)],
             vec, i + 1, m, sub_vector_length)

\* line 33-42: .chunks(dim).for_each(|vec| ..)
RECURSIVE ForEachChunk(_, _, _, _)
ForEachChunk(cs, subarrays, m, sub_vector_length) ==
    IF cs = <<>> THEN subarrays
    ELSE ForEachChunk(Tail(cs),
                      ExtendSubarrays(subarrays, Head(cs), 0, m, sub_vector_length),
                      m, sub_vector_length)

NeverRejected(dim, m) == FALSE
\* line 17: dim % m != 0
NotDivisible(dim, m) == dim % m # 0

\* divide_to_subvectors, line 12-44; the remainder by m = 0 panics
divide_to_subvectors(fsl, m) ==
    LET dim == fsl.value_length
    IN IF m = 0
       THEN Aborted("attempt to calculate the remainder with a divisor of zero")
       ELSE IF NotDivisible(dim, m)
       THEN InvalidInput(invalid_input_message(dim, m))
       ELSE LET sub_vector_length == dim \div m
                subarrays == [i \in 1..m |-> <<>>]
            IN OkBuffers(ForEachChunk(chunks(fsl.values, dim), subarrays, m,
                                      sub_vector_length))

\* The call is made
DivideToSubvectors ==
    /\ is_some(subvectors)
    /\ subvectors.v.result = None
    /\ subvectors' = Some([subvectors.v EXCEPT
           !.result = Some(divide_to_subvectors(subvectors.v.fsl, subvectors.v.m))])
    /\ UNCHANGED centroids
    /\ UNCHANGED <<nodeVars, callVars, tableVars, ctxVars, planVars, probeVars>>

NextDivide == DivideToSubvectors

\* Everything but the PQ functions is idle
IdleExec ==
    /\ IdleNode /\ IdleTable /\ env = NoEnv /\ IdleCtx /\ IdlePlan /\ InitThreads
    /\ original = <<>>
    /\ IdleProbe

\* An array of vectors and a number of sub-vectors to divide them into
InitDivide ==
    /\ \E f \in FixedSizeListArrays, m \in 0..(MaxDim + 1) :
          subvectors = Some([fsl |-> f, m |-> m, result |-> None])
    /\ centroids = None
    /\ IdleExec
SpecDivide == InitDivide /\ [][NextDivide]_vars

\* ====================================== PQ: get_sub_vector_centroids
\* num_centroids, line 49-51
num_centroids(num_bits) == 2 ^ num_bits

\* The flat codebook [sub_vector][centroid][value] of a PQ with these
\* parameters, each position holding its own index
Codebook(num_bits, dimension, num_sub_vectors) ==
    [k \in 1..(num_sub_vectors * num_centroids(num_bits)
                  * (dimension \div num_sub_vectors)) |-> k]

slice_range_unscaled(sub_vector_idx, n_centroids, sub_vector_width) ==
    [start |-> sub_vector_idx * sub_vector_width,
     end |-> sub_vector_idx * sub_vector_width + n_centroids * sub_vector_width]
\* line 69-70: the range of the slice
slice_range(sub_vector_idx, n_centroids, sub_vector_width) ==
    [start |-> sub_vector_idx * n_centroids * sub_vector_width,
     end |-> (sub_vector_idx + 1) * n_centroids * sub_vector_width]

\* get_sub_vector_centroids, line 53-71: debug_assert! is compiled only into
\* debug builds; a range that ends beyond the codebook panics in every build
get_sub_vector_centroids(NUM_BITS, codebook, dimension, num_sub_vectors, sub_vector_idx, debug_assertions) ==
    IF debug_assertions /\ ~(sub_vector_idx < num_sub_vectors)
    THEN Aborted("sub_vector idx, num_sub_vectors")
    ELSE LET n_centroids == 2 ^ NUM_BITS
             sub_vector_width == dimension \div num_sub_vectors
             range == slice_range(sub_vector_idx, n_centroids, sub_vector_width)
         IN IF range.end > Len(codebook)
            THEN Aborted("range end index out of range for slice")
            ELSE OkBuffers(slice(codebook, range.start, range.end))

\* A caller asks for the centroids of one sub-vector, by any index up to
\* num_sub_vectors itself (one beyond the last sub-vector)
GetSubVectorCentroids(sub_vector_idx, debug_assertions) ==
    /\ is_some(centroids)
    /\ sub_vector_idx <= centroids.v.num_sub_vectors
    /\ sub_vector_idx \notin DOMAIN centroids.v.slices
    /\ centroids' = Some([centroids.v EXCEPT !.slices =
           [i \in (DOMAIN @) \cup {sub_vector_idx} |->
               IF i = sub_vector_idx
               THEN get_sub_vector_centroids(
                        centroids.v.NUM_BITS, centroids.v.codebook,
                        centroids.v.dimension, centroids.v.num_sub_vectors,
                        sub_vector_idx, debug_assertions)
               ELSE @[i]]])
    /\ UNCHANGED subvectors
    /\ UNCHANGED <<nodeVars, callVars, tableVars, ctxVars, planVars, probeVars>>

NextCentroids ==
    \E idx \in 0..MaxSubVectors, dbg \in BOOLEAN : GetSubVectorCentroids(idx, dbg)

\* A codebook and its parameters
InitCentroids ==
    /\ \E b \in 0..MaxBits, d \in 1..MaxDim, n \in 1..MaxSubVectors :
          centroids = Some([NUM_BITS |-> b, dimension |-> d, num_sub_vectors |-> n,
                            codebook |-> Codebook(b, d, n),
                            slices |-> [i \in {} |-> None]])
    /\ subvectors = None
    /\ IdleExec
SpecCentroids == InitCentroids /\ [][NextCentroids]_vars

\* ==================================================================== claims
InFlight(t) == pc[t] \in {"locked", "read", "taken", "unlocked"}

\* C1: whatever the interleaving of the threads' execute calls, at most one
\* call obtains the stream (no two threads ever hold it), every call that
\* does not obtain it returns the "already been executed" execution error,
\* and once no call is in flight exactly one of the finished calls obtained it.
C1_ExactlyOneTakes ==
    /\ obtained <= 1
    /\ Cardinality({t \in Threads : is_some(held[t]) \/ is_some(taken[t])}) <= 1
    /\ \A t \in Threads :
          result[t].tag = "Execution" => result[t].msg = AlreadyExecuted
    /\ ((\A t \in Threads : ~InFlight(t)) /\ obtained + failed >= 1)
          => (obtained = 1 /\ failed = obtained + failed - 1)

\* C1 witness: two calls overlapped; the loser has already returned the error
\* while the winner, holding the stream, has not yet returned.
C1_Witness ==
    \E t, u \in Threads :
        /\ t # u
        /\ pc[t] = "unlocked" /\ is_some(taken[t])
        /\ result[u] = ExecutionErr(AlreadyExecuted)

\* C2: the stream the first execute hands out yields exactly the batches the
\* node was built from, in order (what was polled so far followed by what is
\* still to come is the original sequence, under the original schema); once
\* the slot is Consumed it stays Consumed, and once a call has obtained the
\* stream no later call obtains it.
C2_Content ==
    \A t \in Threads :
        is_some(held[t]) =>
            /\ received[t] \o held[t].v.items = original
            /\ held[t].v.schema = schema
C2_Step ==
    /\ is_none(stream) => is_none(stream')
    /\ obtained >= 1 => obtained' = obtained
    /\ obtained >= 1 => \A t \in Threads : result'[t] # result[t] => result'[t].tag # "Ok"
C2_FirstExecuteOnly == [](C2_Content) /\ [][C2_Step]_vars

\* C2 witness: the caller of the first execute has drained both batches of a
\* two-batch source, and a later execute has failed.
C2_Witness ==
    \E t \in Threads :
        /\ Len(original) >= 2
        /\ received[t] = original
        /\ is_some(held[t]) /\ held[t].v.items = <<>>
        /\ failed >= 1

\* C7: the stream is handed out only to a call with partition index 0; a call
\* with another index does not take the stream out of the slot.
C7_PartitionZeroOnly ==
    \A t \in Threads : (InFlight(t) /\ arg[t] # 0) => is_none(taken[t])

\* C10: children() is empty and with_new_children comes back to its caller
\* with a result (no thread is aborted by it), leaving the slot as it was.
C10_RejectsWithError ==
    /\ children = <<>>
    /\ \A t \in Threads : pc[t] # "panicked" /\ result[t].tag # "Panic"
RECURSIVE SumReports(_)
SumReports(rs) == IF rs = <<>> THEN 0 ELSE Head(rs).reports + SumReports(Tail(rs))

\* C3: for every stream execute_plan returned, the summary is reported never
\* before the stream has ended or been dropped, exactly once when it has, and
\* never a second time; each report is one trace event, plus one callback
\* invocation exactly when a callback was supplied, and execute_plan itself
\* reports nothing.
C3_Once ==
    /\ \A r \in 1..Len(runs) :
          /\ (~runs[r].ended /\ ~runs[r].dropped) => runs[r].reports = 0
          /\ (runs[r].ended \/ runs[r].dropped) => runs[r].reports = 1
    /\ Len(events) = SumReports(runs)
C3_Step ==
    /\ \A r \in 1..Len(runs) :
          runs'[r].reports # runs[r].reports =>
              /\ Len(events') = Len(events) + 1
              /\ Len(callbacks') = Len(callbacks)
                    + (IF runs[r].f.v.execution_stats_callback THEN 1 ELSE 0)
    /\ Len(runs') # Len(runs) => (events' = events /\ callbacks' = callbacks)
C3_ReportedExactlyOnce == [](C3_Once) /\ [][C3_Step]_vars

\* C3 witness: one stream was drained, polled again after its end and then
\* dropped; another was dropped with a batch still in it; each was reported
\* once.
C3_Witness ==
    \E r, q \in 1..Len(runs) :
        /\ runs[r].ended /\ runs[r].again /\ runs[r].dropped /\ runs[r].reports = 1
        /\ runs[q].dropped /\ ~runs[q].ended /\ runs[q].items # <<>>
        /\ runs[q].reports = 1
        /\ Len(events) = 2

RECURSIVE SumNodes(_, _, _)
SumNodes(m, n, name) ==
    IF n = 0 THEN 0
    ELSE (IF is_some(m[n]) /\ is_some(m[n].v[name]) THEN m[n].v[name].v ELSE 0)
         + SumNodes(m, n - 1, name)

\* C4: each of the six counters of a reported summary is the sum of that
\* counter over all nodes of the plan tree, every node counted once, a node
\* without metrics or without the counter counting 0; the callback, when
\* supplied, is handed the same counts.
C4_SumOverTree ==
    events # <<>> =>
        LET c == events[Len(events)].counts
        IN /\ c.iops = SumNodes(metrics, plan.n, IOPS_METRIC)
           /\ c.requests = SumNodes(metrics, plan.n, REQUESTS_METRIC)
           /\ c.bytes_read = SumNodes(metrics, plan.n, BYTES_READ_METRIC)
           /\ c.indices_loaded = SumNodes(metrics, plan.n, INDICES_LOADED_METRIC)
           /\ c.parts_loaded = SumNodes(metrics, plan.n, PARTS_LOADED_METRIC)
           /\ c.index_comparisons = SumNodes(metrics, plan.n, INDEX_COMPARISONS_METRIC)
           /\ \A i \in 1..Len(callbacks) : callbacks[i] = c

\* C4 witness: a chain root - child - grandchild, each with iops 1, summed to
\* 3 and handed to the callback.
C4_Witness ==
    /\ plan.n = 3 /\ plan.parent[2] = 1 /\ plan.parent[3] = 2
    /\ \A i \in 1..3 : is_some(metrics[i]) /\ metrics[i].v[IOPS_METRIC] = Some(1)
    /\ events # <<>> /\ events[1].counts.iops = 3
    /\ callbacks # <<>>

PoolCalls == history \cup (IF is_some(lastCall) THEN {lastCall.v} ELSE {})
CachedIds ==
    {c.v : c \in {x \in {DEFAULT_SESSION_CONTEXT,
                         DEFAULT_SESSION_CONTEXT_WITH_SPILLING} : is_some(x)}}
ResolvesToDefault(c) ==
    c.pool_size = DEFAULT_LANCE_MEM_POOL_SIZE /\ is_none(c.options.target_partition)

\* C5: a get_session_context call returns the cached instance selected by its
\* resolved spill flag exactly when its options resolve to the default pool
\* size with no target-partition count (so two such calls with the same flag
\* return the same instance, and the two cached instances differ); every
\* other call returns an instance that is neither cached nor returned by any
\* other call.
C5_CachedExactlyWhenDefault ==
    /\ \A c \in PoolCalls :
          IF ResolvesToDefault(c)
          THEN IF c.spill
               THEN DEFAULT_SESSION_CONTEXT_WITH_SPILLING = Some(c.ret)
               ELSE DEFAULT_SESSION_CONTEXT = Some(c.ret)
          ELSE /\ c.ret \notin CachedIds
               /\ \A d \in PoolCalls : d # c => d.ret # c.ret
    /\ (is_some(DEFAULT_SESSION_CONTEXT) /\ is_some(DEFAULT_SESSION_CONTEXT_WITH_SPILLING))
          => DEFAULT_SESSION_CONTEXT # DEFAULT_SESSION_CONTEXT_WITH_SPILLING

\* C5 witness: two calls with different options (one resolving its pool size
\* through the environment) got the same cached instance, and two calls with
\* a target-partition count got two further instances.
C5_Witness ==
    /\ is_some(lastCall)
    /\ ResolvesToDefault(lastCall.v)
    /\ \E c \in history :
          /\ ResolvesToDefault(c) /\ c.options # lastCall.v.options
          /\ c.ret = lastCall.v.ret
    /\ \E d \in history : ~ResolvesToDefault(d)

\* C6: consuming the table's partition stream a second time gives the caller
\* an Exhausted failure as a result: every consumption attempt ends in Ok or
\* in an error returned to the caller.
C6_ExhaustedReturned ==
    \A t \in Threads : result[t].tag \in {"NoResult", "Ok", "Execution"}

\* C8: analyze_plan returns a report only when no execution failure occurred
\* while the stream was drained.
C8_DrainErrorsSurface ==
    outcome.tag = "Ok" => ~analyze.saw_error

\* C9: on a plan whose partition count is not one, every execute_plan call
\* ends in the partition-count panic, plan.execute is never invoked, no stream
\* is produced and no summary is emitted.
C9_PartitionCountFatal ==
    plan.partitions # 1 =>
        /\ plan_executes = 0
        /\ runs = <<>> /\ events = <<>> /\ callbacks = <<>>
        /\ outcome.tag \in {"NoResult", "Panic"}
        /\ ncalls >= 1 => outcome.tag = "Panic"

\* C9 witness: two execute_plan calls on a plan declaring two partitions
\* both panicked.
C9_Witness ==
    plan.partitions = 2 /\ ncalls = 2 /\ outcome.tag = "Panic"

StreamWasTaken ==
    obtained >= 1 \/ \E t \in Threads : is_some(taken[t]) /\ pc[t] \in {"taken", "unlocked"}

\* C11: in every reachable state schema(), properties(), Debug and display
\* give their output (no such call fails on the node's own account); the
\* schema is the one cached at construction, the properties are one
\* partition, incremental, bounded, and an output showing the exhausted flag
\* was produced only after the stream had been taken by execute.
C11_ViewsAlwaysAvailable ==
    /\ \A t \in Threads : result[t] # Panic(PoisonUnwrapMsg)
    /\ is_some(shown) =>
          /\ shown.v.op = "schema" => shown.v.value = schema
          /\ shown.v.op = "properties" =>
                shown.v.value = [partitions |-> 1, emission |-> "Incremental",
                                 boundedness |-> "Bounded"]
          /\ (shown.v.op = "debug" /\ shown.v.value.exhausted) => StreamWasTaken
          /\ (shown.v.op = "display" /\ shown.v.value[2] = "EXHAUSTED")
                => StreamWasTaken

\* C17: a call of execute that finds the mutex poisoned returns the
\* poisoned-lock execution error to its caller, without going on to the
\* slot, without handing out a stream and without a panic; no step taken
\* while the mutex is poisoned changes the slot, and the error is only ever
\* returned when the mutex is poisoned.
C17_Returned(t) ==
    /\ result'[t] = ExecutionErr(PoisonMsg)
    /\ pc'[t] = "idle"
    /\ failed' = failed + 1
    /\ obtained' = obtained /\ held' = held /\ taken' = taken
C17_OtherCall(t) ==
    \/ shown' # shown
    \/ /\ pc'[t] = "panicked"
       /\ result'[t] \in {Panic(PoisonUnwrapMsg), Panic("not yet implemented")}
C17_Step ==
    stream_lock.poisoned =>
        /\ stream' = stream
        /\ \A t \in Threads : pc[t] = "idle" => pc'[t] \in {"idle", "panicked"}
        /\ ncalls' # ncalls =>
              \E t \in Threads : pc[t] = "idle" /\ (C17_Returned(t) \/ C17_OtherCall(t))
C17_Only ==
    \A t \in Threads : result[t] = ExecutionErr(PoisonMsg) => stream_lock.poisoned
C17_PoisonedLockIsAnError == [](C17_Only) /\ [][C17_Step]_vars

\* C17 witness: the mutex was poisoned while the stream was still in the
\* slot, an execute call has returned the poisoned-lock error, and the stream
\* is still there.
C17_Witness ==
    /\ stream_lock.poisoned
    /\ is_some(stream)
    /\ \E t \in Threads : result[t] = ExecutionErr(PoisonMsg) /\ pc[t] = "idle"

\* C15: the flag use_spilling() returns is the requested flag AND NOT (the
\* variable LANCE_BYPASS_SPILLING is set, to any value whatever).
C15_SpillUnlessBypassPresent ==
    (is_some(resolved) /\ resolved.v.op = "use_spilling") =>
        resolved.v.value =
            (resolved.v.options.use_spilling /\ env.LANCE_BYPASS_SPILLING = None)

\* What LANCE_MEM_POOL_SIZE stands for when it is set to a number
OverrideValue(v) ==
    CASE v = Some(<<"1", "0", "4", "8", "5", "7", "6", "0", "0">>) -> Some(104857600)
      [] v = Some(<<"6", "4">>) -> Some(64)
      [] v = Some(<<"+", "6", "4">>) -> Some(64)
      [] OTHER -> None

\* C16: mem_pool_size() always returns a number: the explicit option value
\* when there is one, whatever the environment; otherwise the number the
\* override is set to; otherwise (override not set, or not a number) 100 MiB.
C16_PoolSizeResolution ==
    (is_some(resolved) /\ resolved.v.op = "mem_pool_size") =>
        /\ resolved.v.value \in Nat
        /\ resolved.v.value =
              IF resolved.v.options.mem_pool_size # None
              THEN resolved.v.options.mem_pool_size.v
              ELSE IF OverrideValue(env.LANCE_MEM_POOL_SIZE) # None
                   THEN OverrideValue(env.LANCE_MEM_POOL_SIZE).v
                   ELSE 100 * 1024 * 1024

\* C16 witness: with the override set to "abc" and no explicit value the
\* call returned the default.
C16_Witness ==
    /\ is_some(resolved) /\ resolved.v.op = "mem_pool_size"
    /\ env.LANCE_MEM_POOL_SIZE = Some(<<"a", "b", "c">>)
    /\ resolved.v.options.mem_pool_size = None
    /\ resolved.v.value = DEFAULT_LANCE_MEM_POOL_SIZE

\* C18: every task context carries the batch size of its own call's
\* override, or the session's original batch size when the call had none,
\* whatever overrides earlier calls on the same session had; the batch size
\* stored in every session stays the one it was built with.
C18_OverrideStaysInTask ==
    /\ \A i \in 1..Len(sessions) : sessions[i].batch_size = 8192
    /\ \A j \in 1..Len(task) :
          task[j].ctx.batch_size =
              IF task[j].options.batch_size = None THEN 8192
              ELSE task[j].options.batch_size.v

\* C18 witness: on a cached session, a call with batch size 16 was followed
\* by a call without override, which got the original batch size.
C18_Witness ==
    \E i, j \in 1..Len(task) :
        /\ i < j
        /\ task[i].session = task[j].session
        /\ DEFAULT_SESSION_CONTEXT = Some(task[i].session)
        /\ task[i].options.batch_size = Some(16) /\ task[i].ctx.batch_size = 16
        /\ task[j].options.batch_size = None /\ task[j].ctx.batch_size = 8192

Policy(ctx) == [disk_manager |-> ctx.disk_manager, memory_pool |-> ctx.memory_pool]

\* C19: the context a get_session_context call returns has the resource
\* policy (spill path, memory pool and its cap) that new_session_context
\* would give the same options in the environment of that moment.
C19_Step ==
    ncalls' # ncalls =>
        Policy(sessions'[lastCall'.v.ret])
            = Policy(new_session_context(lastCall'.v.options, env))
C19_SamePolicyAsFresh == [][C19_Step]_vars

Divided == is_some(subvectors) /\ subvectors.v.result # None
\* The 10 vectors of dimension 32 holding 0 .. 319
SequentialVectors == [value_length |-> 32, len |-> 10, values |-> [k \in 1..320 |-> k - 1]]

C13_RejectsNonDivisor ==
    (Divided /\ subvectors.v.m >= 1
        /\ subvectors.v.fsl.value_length % subvectors.v.m # 0) =>
        LET r == subvectors.v.result.v
        IN /\ r.tag = "InvalidInput"
           /\ r.v = None
           /\ Len(r.msg) = 4
           /\ ParseDigits(r.msg[2], 0) = Some(subvectors.v.fsl.value_length)
           /\ ParseDigits(r.msg[4], 0) = Some(subvectors.v.m)

\* C13 witness: vectors of dimension 4 and m = 3 were rejected.
C13_Witness ==
    /\ Divided
    /\ subvectors.v.fsl.value_length = 4 /\ subvectors.v.m = 3
    /\ subvectors.v.fsl.len = 2
    /\ subvectors.v.result.v.tag = "InvalidInput"
    /\ subvectors.v.result.v.msg[2] = <<"4">> /\ subvectors.v.result.v.msg[4] = <<"3">>

\* C20: for every m >= 0 and every N >= 0 the call comes back with the
\* buffers or with an InvalidInput error; it never aborts.
C20_TotalOverParameters ==
    Divided => subvectors.v.result.v.tag \in {"Ok", "InvalidInput"}

Positions(sl) == {sl.v.v[k] : k \in 1..Len(sl.v.v)}

\* C14: on a codebook of num_sub_vectors * 2^NUM_BITS * (dimension /
\* num_sub_vectors) elements, the slice returned for each sub_vector_idx
\* below num_sub_vectors is 2^NUM_BITS * (dimension / num_sub_vectors)
\* consecutive positions, no two slices share a position, the slice of a
\* lower index lies before that of a higher one, and the slices of all the
\* indices together are every position of the codebook.
C14_SlicesTile ==
    is_some(centroids) =>
        LET c == centroids.v
            L == (2 ^ c.NUM_BITS) * (c.dimension \div c.num_sub_vectors)
            asked == {i \in DOMAIN c.slices : i < c.num_sub_vectors}
        IN /\ \A i \in asked :
                 /\ c.slices[i].tag = "Ok"
                 /\ Len(c.slices[i].v.v) = L
                 /\ \A k \in 1..(L - 1) : c.slices[i].v.v[k + 1] = c.slices[i].v.v[k] + 1
           /\ \A i, j \in asked :
                 i < j => \A x \in Positions(c.slices[i]), y \in Positions(c.slices[j]) : x < y
           /\ asked = 0..(c.num_sub_vectors - 1) =>
                 UNION {Positions(c.slices[i]) : i \in asked} = 1..Len(c.codebook)

\* C14 witness: the three slices of a codebook of 3 sub-vectors, 4
\* centroids and width 1 were all asked for.
C14_Witness ==
    /\ is_some(centroids)
    /\ centroids.v.num_sub_vectors = 3 /\ centroids.v.NUM_BITS = 2
    /\ centroids.v.dimension = 3
    /\ Len(centroids.v.codebook) = 12
    /\ {0, 1, 2} \subseteq DOMAIN centroids.v.slices
    /\ centroids.v.slices[1].v.v = <<5, 6, 7, 8>>
====
